---- MODULE Spec2Model ----
(***************************************************************************)
(* A model of salt/modules/pip.py: the pip execution module of salt.       *)
(*                                                                         *)
(* Strings.  A Python string is modelled as a sequence of symbols.  A      *)
(* symbol is one character (",", ";", " ", "=", "#", "&", "'", "-", ...)   *)
(* or a run of characters that no operation of the module looks into       *)
(* ("django", "/usr/bin/", "--upgrade", ...).  None and the empty string   *)
(* are both the empty sequence: the module only ever tests their truth.    *)
(*                                                                         *)
(* Collaborators.  The module keeps no state of its own.  What it consults *)
(* (the platform, the PATH, the file system, the file cache, file.chown,   *)
(* cmd.run_all) is the environment `env` of a call; a call's arguments and *)
(* its environment are drawn when the call is made, and the state after    *)
(* the call records them with everything the call did.                     *)
(***************************************************************************)
EXTENDS Integers, Sequences, FiniteSets, TLC

VARIABLES
    pc,        \* "idle" before the call, "done" once it has returned or raised
    op,        \* the function called
    args,      \* its arguments
    env,       \* the environment the call ran in
    outcome,   \* [kind: "return" | "raise", exc, val]
    ran,       \* the commands handed to cmd.run_all during the call, in order
    fetched,   \* the values cp.cache_file returned during the call, in order
    created,   \* the temporary files the call created (salt.utils.mkstemp)
    tmp,       \* the temporary files that exist
    cachehash  \* the hash of the copy the file cache holds (0: it holds none)

vars == <<pc, op, args, env, outcome, ran, fetched, created, tmp, cachehash>>

(***************************************************************************)
(* Bounds of the model.                                                    *)
(***************************************************************************)
\* an install request sets at most this many of its keyword arguments
MaxOpts == 3
\* the freeze output has at most this many lines
MaxLines == 2
\* the files of the master and of the file cache have hashes 1..MaxHash
MaxHash == 2

(***************************************************************************)
(* Python's str and list operations, as the module uses them.              *)
(***************************************************************************)
None == <<>>

\* s.startswith(p)
StartsWith(s, p) ==
    /\ Len(p) <= Len(s)
    /\ SubSeq(s, 1, Len(p)) = p

\* s has sep at position i
HasAt(s, sep, i) ==
    /\ i >= 1
    /\ i + Len(sep) - 1 <= Len(s)
    /\ SubSeq(s, i, i + Len(sep) - 1) = sep

\* sep in s
Contains(s, sep) == \E i \in 1..Len(s) : HasAt(s, sep, i)

RECURSIVE SplitFrom(_, _, _, _)
\* the pieces of s from position i on, `start` being where the current piece began
SplitFrom(s, sep, start, i) ==
    IF i > Len(s) THEN <<SubSeq(s, start, Len(s))>>
    ELSE IF HasAt(s, sep, i)
         THEN <<SubSeq(s, start, i - 1)>> \o SplitFrom(s, sep, i + Len(sep), i + Len(sep))
         ELSE SplitFrom(s, sep, start, i + 1)

\* s.split(sep), sep not empty
Split(s, sep) == SplitFrom(s, sep, 1, 1)

WhiteSpace == {" ", "\n"}

RECURSIVE LStrip(_)
LStrip(s) == IF s # <<>> /\ Head(s) \in WhiteSpace THEN LStrip(Tail(s)) ELSE s

RECURSIVE RStrip(_)
RStrip(s) ==
    IF s # <<>> /\ s[Len(s)] \in WhiteSpace THEN RStrip(SubSeq(s, 1, Len(s) - 1)) ELSE s

\* s.strip()
Strip(s) == RStrip(LStrip(s))

\* s.replace(a, b) for single characters a and b
Replace(s, a, b) == [i \in 1..Len(s) |-> IF s[i] = a THEN b ELSE s[i]]

RECURSIVE Join(_, _)
\* sep.join(l)
Join(l, sep) ==
    IF l = <<>> THEN <<>>
    ELSE IF Len(l) = 1 THEN l[1]
    ELSE l[1] \o sep \o Join(Tail(l), sep)

\* s.lower(): the letters of the model's alphabet
LowerChar(c) ==
    CASE c = "A" -> "a"
      [] c = "B" -> "b"
      [] OTHER -> c

Lower(s) == [i \in 1..Len(s) |-> LowerChar(s[i])]

\* repr(s) of a str without quotes in it, as '{0!r}'.format(s) writes it
Repr(s) == <<"'">> \o s \o <<"'">>

\* s.splitlines(): the lines of s, a final line break adding no empty line
SplitLines(s) ==
    IF s = <<>> THEN <<>>
    ELSE LET parts == Split(s, <<"\n">>)
         IN  IF parts[Len(parts)] = <<>> THEN SubSeq(parts, 1, Len(parts) - 1) ELSE parts

(***************************************************************************)
(* The collaborators the module consults, read from the environment e of   *)
(* the call.                                                               *)
(***************************************************************************)
PipNames == <<"pip2", "pip", "pip-python">>

\* salt.utils.is_windows()
IsWindows(e) == e.windows

\* os.path.isdir(p), os.path.isfile(p)
IsDir(e, p) == p \in e.dirs
IsFile(e, p) == p \in e.files

\* os.path.join(a, b, c) for a, b and c that end with no separator
PathJoin(e, a, b, c) ==
    LET sep == IF IsWindows(e) THEN "\\" ELSE "/"
    IN  a \o <<sep, b, sep, c>>

RECURSIVE WhichFirst(_, _)
WhichFirst(e, names) ==
    IF names = <<>> THEN None
    ELSE IF Head(names) \in e.onPath THEN <<"/usr/bin/", Head(names)>>
    ELSE WhichFirst(e, Tail(names))

\* __salt__['cmd.which_bin'](names): the first of names found on the PATH, or None
WhichBin(e, names) == WhichFirst(e, names)

\* where the file cache keeps its copy of a salt:// source
CachePath(requirements) == <<"/var/cache/salt/">> \o SubSeq(requirements, 3, Len(requirements))

\* __salt__['cp.is_cached'](requirements, __env__), the cache holding hash `cache`
IsCached(cache, requirements) == IF cache # 0 THEN CachePath(requirements) ELSE None

\* __salt__['cp.cache_file'](requirements, __env__): the cached path and the hash the
\* cache holds afterwards; nothing when the master has no such file
CacheFile(e, cache, requirements) ==
    IF e.upstream # 0
    THEN [val |-> CachePath(requirements), cache |-> e.upstream]
    ELSE [val |-> None, cache |-> cache]

\* __salt__['cp.hash_file'](path, __env__) of the master's file and of a cached path;
\* 0 is the hash of no file
HashUpstream(e) == e.upstream
HashCached(cache, path) == IF path = None THEN 0 ELSE cache

\* salt.utils.valid_url(url, protos): the scheme of url is one of protos
ValidUrl(url, protos) ==
    /\ Len(url) >= 2
    /\ url[2] = "://"
    /\ url[1] \in protos

VALID_PROTOS == {"http", "https", "ftp"}

(***************************************************************************)
(* _get_pip_bin, _get_env_activate, _get_cached_requirements.  A result is *)
(* [exc, val]: exc is "" on a return and names the exception on a raise.   *)
(***************************************************************************)
Ret(v) == [exc |-> "", val |-> v]
Raise(x) == [exc |-> x, val |-> None]

\* as _get_pip_bin, the PATH searched when the virtualenv holds no pip
_get_pip_bin_path_fallback(e, bin_env) ==
    LET which_result == WhichBin(e, PipNames)
        searched == IF which_result = None THEN Raise("CommandNotFoundError")
                    ELSE Ret(which_result)
    IN  IF bin_env = None THEN searched
        ELSE IF IsDir(e, bin_env)
        THEN LET pip_bin == IF IsWindows(e) THEN PathJoin(e, bin_env, "Scripts", "pip.exe")
                                            ELSE PathJoin(e, bin_env, "bin", "pip")
             IN  IF IsFile(e, pip_bin) THEN Ret(pip_bin) ELSE searched
        ELSE Ret(bin_env)

_get_pip_bin(e, bin_env) ==
    IF bin_env = None
    THEN LET which_result == WhichBin(e, PipNames)
         IN  IF which_result = None THEN Raise("CommandNotFoundError") ELSE Ret(which_result)
    ELSE IF IsDir(e, bin_env)
    THEN LET pip_bin == IF IsWindows(e) THEN PathJoin(e, bin_env, "Scripts", "pip.exe")
                                        ELSE PathJoin(e, bin_env, "bin", "pip")
         IN  IF IsFile(e, pip_bin) THEN Ret(pip_bin) ELSE Raise("CommandNotFoundError")
    ELSE Ret(bin_env)

_get_env_activate(e, bin_env) ==
    IF bin_env = None THEN Raise("CommandNotFoundError")
    ELSE IF IsDir(e, bin_env)
    THEN LET activate_bin == IF IsWindows(e) THEN PathJoin(e, bin_env, "Scripts", "activate.bat")
                                             ELSE PathJoin(e, bin_env, "bin", "activate")
         IN  IF IsFile(e, activate_bin) THEN Ret(activate_bin) ELSE Raise("CommandNotFoundError")
    ELSE Raise("CommandNotFoundError")

\* as _get_cached_requirements, the hashes not compared
_get_cached_requirements_no_refresh(e, requirements) ==
    LET c0 == IsCached(e.cached, requirements)
        f1 == CacheFile(e, e.cached, requirements)
    IN  IF c0 = None
        THEN [val |-> f1.val, cache |-> f1.cache, fetched |-> <<f1.val>>]
        ELSE [val |-> c0, cache |-> e.cached, fetched |-> <<>>]

\* [val, cache, fetched]: the path returned, the hash the cache holds afterwards and
\* what the calls of cp.cache_file returned, in order
_get_cached_requirements(e, requirements) ==
    LET c0 == IsCached(e.cached, requirements)
        f1 == CacheFile(e, e.cached, requirements)
        s1 == IF c0 = None
              THEN [val |-> f1.val, cache |-> f1.cache, fetched |-> <<f1.val>>]
              ELSE [val |-> c0, cache |-> e.cached, fetched |-> <<>>]
        f2 == CacheFile(e, s1.cache, requirements)
    IN  IF HashUpstream(e) # HashCached(s1.cache, s1.val)
        THEN [val |-> f2.val, cache |-> f2.cache, fetched |-> Append(s1.fetched, f2.val)]
        ELSE s1

(***************************************************************************)
(* The arguments of install.  pkgs, editable, mirrors and install_options  *)
(* are given as one string or as a list of strings: [isstr, s, l], of      *)
(* which None is NoList.                                                   *)
(***************************************************************************)
NoList == [isstr |-> FALSE, s |-> <<>>, l |-> <<>>]
StrArg(s) == [isstr |-> TRUE, s |-> s, l |-> <<>>]
ListArg(l) == [isstr |-> FALSE, s |-> <<>>, l |-> l]

\* `if x:` for a str-or-list argument
Truthy(x) == x.s # <<>> \/ x.l # <<>>

\* as Normalise, the pieces of the string not stripped
NormaliseNoStrip(x) ==
    IF x.isstr
    THEN IF Contains(x.s, <<",">>) THEN Split(x.s, <<",">>) ELSE <<x.s>>
    ELSE x.l

\* x given as a string: [p.strip() for p in x.split(',')] if ',' in x else [x];
\* a list is left as it is
Normalise(x) ==
    IF x.isstr
    THEN IF Contains(x.s, <<",">>)
         THEN LET parts == Split(x.s, <<",">>)
              IN  [i \in 1..Len(parts) |-> Strip(parts[i])]
         ELSE <<x.s>>
    ELSE x.l

\* a stage of the command's construction: exc names the exception it raises ("" when
\* none), toks are the tokens it appends to cmd
Toks(t) == [exc |-> "", toks |-> t]
Fail(x) == [exc |-> x, toks |-> <<>>]

\* lines 237-249
PkgsStage(pkgs) ==
    IF Truthy(pkgs)
    THEN LET l == Normalise(pkgs)
         IN  Toks([i \in 1..Len(l) |-> Replace(l[i], ";", ",")])
    ELSE Toks(<<>>)

\* the first position from k on that holds "&", or Len(s) + 1
RECURSIVE NextAmp(_, _)
NextAmp(s, k) == IF k > Len(s) \/ s[k] = "&" THEN k ELSE NextAmp(s, k + 1)

\* group 1 of egg_match, r'(?:#|#.*?&)egg=([^&]*)', matched at the "#" at i:
\* [found, group]
EggAt(s, i) ==
    IF HasAt(s, <<"egg=">>, i + 1)
    THEN [found |-> TRUE, group |-> SubSeq(s, i + 2, NextAmp(s, i + 2) - 1)]
    ELSE LET js == {j \in (i + 1)..Len(s) : HasAt(s, <<"&", "egg=">>, j)}
         IN  IF js = {} THEN [found |-> FALSE, group |-> <<>>]
             ELSE LET j == CHOOSE k \in js : \A m \in js : k <= m
                  IN  [found |-> TRUE, group |-> SubSeq(s, j + 2, NextAmp(s, j + 2) - 1)]

\* egg_match.search(entry): the leftmost match
EggSearch(s) ==
    LET is == {i \in 1..Len(s) : s[i] = "#" /\ EggAt(s, i).found}
    IN  IF is = {} THEN [found |-> FALSE, group |-> <<>>]
        ELSE EggAt(s, CHOOSE i \in is : \A m \in is : i <= m)

\* lines 259-266: the entry is local or names its egg
EditableOk(entry) ==
    \/ StartsWith(entry, <<"file", "://">>)
    \/ StartsWith(entry, <<"/">>)
    \/ (EggSearch(entry).found /\ EggSearch(entry).group # <<>>)

\* lines 251-267
EditableStage(editable) ==
    IF Truthy(editable)
    THEN LET l == Normalise(editable)
         IN  IF \E i \in 1..Len(l) : ~EditableOk(l[i])
             THEN Fail("Exception")
             ELSE Toks([i \in 1..Len(l) |-> <<"--editable=">> \o l[i]])
    ELSE Toks(<<>>)

Digits == {"0", "1", "2", "3", "4", "5", "6", "7", "8", "9"}

\* int(timeout) of a str does not raise ValueError: blanks around an optional sign
\* and at least one digit
IsInt(s) ==
    LET t == Strip(s)
        d == IF t # <<>> /\ Head(t) \in {"+", "-"} THEN Tail(t) ELSE t
    IN  d # <<>> /\ \A i \in 1..Len(d) : d[i] \in Digits

\* a str option that is passed through: '<flag>{0}'.format(value)
StrOpt(flag, value) == IF value # None THEN Toks(<<<<flag>> \o value>>) ELSE Toks(<<>>)
\* a bool option
BoolOpt(flag, value) == IF value THEN Toks(<<<<flag>>>>) ELSE Toks(<<>>)

\* lines 309-316
TimeoutStage(timeout) ==
    IF timeout # None
    THEN IF IsInt(timeout) THEN Toks(<<<<"--timeout=">> \o timeout>>) ELSE Fail("ValueError")
    ELSE Toks(<<>>)

\* lines 318-321
FindLinksStage(find_links) ==
    IF find_links # None
    THEN IF ~ValidUrl(find_links, VALID_PROTOS) THEN Fail("Exception")
         ELSE Toks(<<<<"--find-links=">> \o find_links>>)
    ELSE Toks(<<>>)

\* lines 324-328
NoIndexStage(a) ==
    IF a.no_index /\ (a.index_url # None \/ a.extra_index_url # None)
    THEN Fail("Exception")
    ELSE Toks(<<>>)

\* lines 330-333
IndexUrlStage(index_url) ==
    IF index_url # None
    THEN IF ~ValidUrl(index_url, VALID_PROTOS) THEN Fail("Exception")
         ELSE Toks(<<<<"--index-url=">> \o Repr(index_url)>>)
    ELSE Toks(<<>>)

\* lines 335-340: the token ends with a blank
ExtraIndexUrlStage(extra_index_url) ==
    IF extra_index_url # None
    THEN IF ~ValidUrl(extra_index_url, VALID_PROTOS) THEN Fail("Exception")
         ELSE Toks(<<<<"--extra-index-url=">> \o Repr(extra_index_url) \o <<" ">>>>)
    ELSE Toks(<<>>)

\* as MirrorsStage, a mirror held to the schemes of the other URLs
MirrorsStageAnyScheme(mirrors) ==
    IF Truthy(mirrors)
    THEN LET l == Normalise(mirrors)
         IN  IF \E i \in 1..Len(l) : ~ValidUrl(l[i], VALID_PROTOS)
             THEN Fail("Exception")
             ELSE Toks(<<<<"--use-mirrors">>>> \o [i \in 1..Len(l) |-> <<"--mirrors=">> \o l[i]])
    ELSE Toks(<<>>)

\* lines 345-356
MirrorsStage(mirrors) ==
    IF Truthy(mirrors)
    THEN LET l == Normalise(mirrors)
         IN  IF \E i \in 1..Len(l) : ~StartsWith(l[i], <<"http", "://">>)
             THEN Fail("Exception")
             ELSE Toks(<<<<"--use-mirrors">>>> \o [i \in 1..Len(l) |-> <<"--mirrors=">> \o l[i]])
    ELSE Toks(<<>>)

\* lines 358-359: '--build={0}'.format(build=build) has no positional argument
BuildStage(build) == IF build # None THEN Fail("IndexError") ELSE Toks(<<>>)

\* lines 394-399
InstallOptionsStage(install_options) ==
    IF Truthy(install_options)
    THEN LET l == IF install_options.isstr THEN <<install_options.s>> ELSE install_options.l
         IN  Toks([i \in 1..Len(l) |-> <<"--install-option=">> \o l[i]])
    ELSE Toks(<<>>)

\* lines 297-399, in the order of the code
OptionStages(a) ==
    << StrOpt("--log=", a.log),
       StrOpt("--proxy=", a.proxy),
       TimeoutStage(a.timeout),
       FindLinksStage(a.find_links),
       NoIndexStage(a),
       IndexUrlStage(a.index_url),
       ExtraIndexUrlStage(a.extra_index_url),
       BoolOpt("--no-index", a.no_index),
       MirrorsStage(a.mirrors),
       BuildStage(a.build),
       StrOpt("--target=", a.target),
       StrOpt("--download=", a.download),
       StrOpt("--download-cache=", a.download_cache),
       StrOpt("--source=", a.source),
       BoolOpt("--upgrade", a.upgrade),
       BoolOpt("--force-reinstall", a.force_reinstall),
       BoolOpt("--ignore-installed", a.ignore_installed),
       StrOpt("--exists-action=", a.exists_action),
       BoolOpt("--no-deps", a.no_deps),
       BoolOpt("--no-install", a.no_install),
       BoolOpt("--no-download", a.no_download),
       InstallOptionsStage(a.install_options) >>

\* the exception of the first stage that raises, "" when none does
RECURSIVE FirstExc(_)
FirstExc(stages) ==
    IF stages = <<>> THEN ""
    ELSE IF Head(stages).exc # "" THEN Head(stages).exc
    ELSE FirstExc(Tail(stages))

\* the tokens of all stages, in order
RECURSIVE AllToks(_)
AllToks(stages) ==
    IF stages = <<>> THEN <<>> ELSE Head(stages).toks \o AllToks(Tail(stages))

(***************************************************************************)
(* What a call does: [exc, val, ran, fetched, created, tmp, cache].  exc   *)
(* is "" on a return, val the value returned (NoVal on a raise), cache the *)
(* hash of the copy the file cache holds when the call ends.               *)
(***************************************************************************)
NoVal == [type |-> "none"]

\* the dictionary cmd.run_all returns
RunResult(r) == [type |-> "result", retcode |-> r.retcode, stdout |-> r.stdout, stderr |-> r.stderr]

\* lines 274-281
NotFound(requirements) ==
    [type |-> "notfound", result |-> FALSE,
     comment |-> <<"pip requirements file ">> \o Repr(requirements) \o <<" not found">>]

\* salt.utils.mkstemp(): the path of the file it creates
TmpPath == <<"/tmp/", "tmpreq">>

Salt == <<"salt", "://">>

Did(x, v, r, f, c, left, h) ==
    [exc |-> x, val |-> v, ran |-> r, fetched |-> f, created |-> c, tmp |-> left, cache |-> h]

\* lines 228-229
EffectiveBinEnv(a) == IF a.env # None /\ a.bin_env = None THEN a.env ELSE a.bin_env

\* as Activates, the platform not looked at
ActivatesAnyPlatform(e, a) == a.activate /\ EffectiveBinEnv(a) # None

\* lines 233-234: the activation script is resolved
Activates(e, a) == a.activate /\ EffectiveBinEnv(a) # None /\ ~IsWindows(e)

\* lines 284: a temporary copy of the requirements file is made
Copies(a) == a.requirements # None /\ a.runas # None /\ ~a.no_chown

\* lines 403-408: what is left of the temporary files `files` after the finally
\* clause, treq being the copy of this call (None when it made none)
Finally(files, treq) == IF treq # None THEN files \ {treq} ELSE files

\* as Missing, the test dropped
MissingNever(cached_requirements) == FALSE

\* line 273: `not cached_requirements`
Missing(cached_requirements) == cached_requirements = None

install(e, a) ==
    LET bin_env == EffectiveBinEnv(a)
        pip == _get_pip_bin(e, bin_env)
        act == IF Activates(e, a) THEN _get_env_activate(e, bin_env) ELSE Ret(None)
        prefix == IF Activates(e, a) THEN <<<<".">>, act.val, <<"&&">>>> ELSE <<>>
        pk == PkgsStage(a.pkgs)
        ed == EditableStage(a.editable)
        remote == a.requirements # None /\ StartsWith(a.requirements, Salt)
        cr == IF remote THEN _get_cached_requirements(e, a.requirements)
              ELSE [val |-> a.requirements, cache |-> e.cached, fetched |-> <<>>]
        requirements == cr.val
        treq == IF Copies(a) THEN TmpPath ELSE None
        made == IF Copies(a) THEN {TmpPath} ELSE {}
        reqtok == IF a.requirements # None
                  THEN <<<<"--requirement=">> \o Repr(IF treq # None THEN treq ELSE requirements)>>
                  ELSE <<>>
        st == OptionStages(a)
        cmd == prefix \o <<pip.val, <<"install">>>> \o pk.toks \o ed.toks \o reqtok \o AllToks(st)
    IN  IF pip.exc # "" THEN Did(pip.exc, NoVal, <<>>, <<>>, {}, {}, e.cached)
        ELSE IF act.exc # "" THEN Did(act.exc, NoVal, <<>>, <<>>, {}, {}, e.cached)
        ELSE IF ed.exc # "" THEN Did(ed.exc, NoVal, <<>>, <<>>, {}, {}, e.cached)
        ELSE IF remote /\ Missing(requirements)
             THEN Did("", NotFound(a.requirements), <<>>, cr.fetched, {}, {}, cr.cache)
        ELSE IF Copies(a) /\ ~e.copy_ok THEN Did("IOError", NoVal, <<>>, cr.fetched, made, made, cr.cache)
        ELSE IF Copies(a) /\ ~e.chown_ok THEN Did("OSError", NoVal, <<>>, cr.fetched, made, made, cr.cache)
        ELSE IF FirstExc(st) # "" THEN Did(FirstExc(st), NoVal, <<>>, cr.fetched, made, made, cr.cache)
        ELSE IF e.run.raises
             THEN Did("CommandExecutionError", NoVal, <<Join(cmd, <<" ">>)>>, cr.fetched,
                      made, Finally(made, treq), cr.cache)
        ELSE Did("", RunResult(e.run), <<Join(cmd, <<" ">>)>>, cr.fetched,
                 made, Finally(made, treq), cr.cache)

(***************************************************************************)
(* uninstall (lines 411-510).  Its command is one string; pkgs is a        *)
(* string.                                                                 *)
(***************************************************************************)
\* lines 504-508: what is left of the temporary files after uninstall's removal
Removal(files, treq) == IF treq # None THEN files \ {treq} ELSE files

uninstall(e, a) ==
    LET pip == _get_pip_bin(e, a.bin_env)
        cmd0 == pip.val \o <<" uninstall -y ">>
        cmd1 == IF a.pkgs # None
                THEN cmd0 \o <<" ">> \o Replace(a.pkgs, ",", " ") \o <<" ">>
                ELSE cmd0
        remote == a.requirements # None /\ StartsWith(a.requirements, Salt)
        f == CacheFile(e, e.cached, a.requirements)
        got == IF remote THEN <<f.val>> ELSE <<>>
        held == IF remote THEN f.cache ELSE e.cached
        treq == IF remote THEN TmpPath ELSE None
        made == IF remote THEN {TmpPath} ELSE {}
        cmd2 == IF a.requirements # None
                THEN cmd1 \o <<" --requirements ">>
                          \o Repr(IF treq # None THEN treq ELSE a.requirements) \o <<" ">>
                ELSE cmd1
        cmd3 == IF a.log # None THEN cmd2 \o <<" --">> \o a.log \o <<" ">> ELSE cmd2
        cmd4 == IF a.proxy # None THEN cmd3 \o <<" --proxy=">> \o a.proxy \o <<" ">> ELSE cmd3
        cmd5 == IF a.timeout # None
                THEN cmd4 \o <<" --timeout=">> \o a.timeout \o <<" ">>
                ELSE cmd4
    IN  IF pip.exc # "" THEN Did(pip.exc, NoVal, <<>>, <<>>, {}, {}, e.cached)
        ELSE IF remote /\ f.val = None THEN Did("TypeError", NoVal, <<>>, got, made, made, held)
        ELSE IF remote /\ ~e.copy_ok THEN Did("IOError", NoVal, <<>>, got, made, made, held)
        ELSE IF a.timeout # None /\ ~IsInt(a.timeout)
             THEN Did("ValueError", NoVal, <<>>, got, made, made, held)
        ELSE IF e.run.raises
             THEN Did("CommandExecutionError", NoVal, <<cmd5>>, got, made, made, held)
        ELSE Did("", RunResult(e.run), <<cmd5>>, got, made, Removal(made, treq), held)

(***************************************************************************)
(* freeze and list_ (lines 513-579).                                       *)
(***************************************************************************)
\* lines 540 and 563: the run is taken to have failed
Failed(result) == result.retcode > 0

freeze(e, a) ==
    LET pip == _get_pip_bin(e, a.bin_env)
        cmd == pip.val \o <<" freeze">>
    IN  IF pip.exc # "" THEN Did(pip.exc, NoVal, <<>>, <<>>, {}, {}, e.cached)
        ELSE IF e.run.raises
             THEN Did("CommandExecutionError", NoVal, <<cmd>>, <<>>, {}, {}, e.cached)
        ELSE IF Failed(e.run)
             THEN Did("CommandExecutionError", [type |-> "stderr", stderr |-> e.run.stderr],
                      <<cmd>>, <<>>, {}, {}, e.cached)
        ELSE Did("", [type |-> "lines", lines |-> SplitLines(e.run.stdout)],
                 <<cmd>>, <<>>, {}, {}, e.cached)

\* the local variables of list_ while it reads the lines: [exc, bound, name, version,
\* packages]; bound says that name and version have been assigned
Unbound == [exc |-> "", bound |-> FALSE, name |-> <<>>, version |-> <<>>, packages |-> <<>>]

\* packages[name] = version
Put(packages, name, version) ==
    [n \in DOMAIN packages \cup {name} |-> IF n = name THEN version ELSE packages[n]]

\* lines 567-572: name and version after the line is read
ReadLine(st, line) ==
    IF StartsWith(line, <<"-", "e">>)
    THEN LET parts == Split(line, <<"-", "e", " ">>)
         IN  IF Len(parts) < 2 THEN [st EXCEPT !.exc = "IndexError"]
             ELSE LET pair == Split(parts[2], <<"#", "egg=">>)
                  IN  IF Len(pair) # 2 THEN [st EXCEPT !.exc = "ValueError"]
                      ELSE [st EXCEPT !.bound = TRUE, !.version = pair[1], !.name = pair[2]]
    ELSE LET parts == Split(line, <<"=", "=">>)
         IN  IF Len(parts) >= 2
             THEN [st EXCEPT !.bound = TRUE, !.name = parts[1], !.version = parts[2]]
             ELSE st

\* as Store, the letter case of the name and of the prefix kept
StoreCaseSensitive(st, prefix) ==
    IF st.exc # "" THEN st
    ELSE IF ~st.bound THEN [st EXCEPT !.exc = "UnboundLocalError"]
    ELSE IF prefix # None
         THEN IF StartsWith(st.name, prefix)
              THEN [st EXCEPT !.packages = Put(st.packages, st.name, st.version)]
              ELSE st
    ELSE [st EXCEPT !.packages = Put(st.packages, st.name, st.version)]

\* lines 574-578: the entry is stored when the name passes the prefix
Store(st, prefix) ==
    IF st.exc # "" THEN st
    ELSE IF ~st.bound THEN [st EXCEPT !.exc = "UnboundLocalError"]
    ELSE IF prefix # None
         THEN IF StartsWith(Lower(st.name), Lower(prefix))
              THEN [st EXCEPT !.packages = Put(st.packages, st.name, st.version)]
              ELSE st
    ELSE [st EXCEPT !.packages = Put(st.packages, st.name, st.version)]

RECURSIVE ReadLines(_, _, _)
\* lines 566-578: the loop over the lines
ReadLines(st, lines, prefix) ==
    IF lines = <<>> \/ st.exc # "" THEN st
    ELSE ReadLines(Store(ReadLine(st, Head(lines)), prefix), Tail(lines), prefix)

list_(e, a) ==
    LET pip == _get_pip_bin(e, a.bin_env)
        cmd == pip.val \o <<" freeze">>
        st == ReadLines(Unbound, SplitLines(e.run.stdout), a.prefix)
    IN  IF pip.exc # "" THEN Did(pip.exc, NoVal, <<>>, <<>>, {}, {}, e.cached)
        ELSE IF e.run.raises
             THEN Did("CommandExecutionError", NoVal, <<cmd>>, <<>>, {}, {}, e.cached)
        ELSE IF Failed(e.run)
             THEN Did("CommandExecutionError", [type |-> "stderr", stderr |-> e.run.stderr],
                      <<cmd>>, <<>>, {}, {}, e.cached)
        ELSE IF st.exc # "" THEN Did(st.exc, NoVal, <<cmd>>, <<>>, {}, {}, e.cached)
        ELSE Did("", [type |-> "packages", packages |-> st.packages],
                 <<cmd>>, <<>>, {}, {}, e.cached)

(***************************************************************************)
(* The install requests: the defaults of the signature (lines 88-118) and  *)
(* the values a caller gives its keyword arguments.                        *)
(***************************************************************************)
Defaults ==
    [pkgs |-> NoList, requirements |-> None, env |-> None, bin_env |-> None, log |-> None,
     proxy |-> None, timeout |-> None, editable |-> NoList, find_links |-> None,
     index_url |-> None, extra_index_url |-> None, no_index |-> FALSE, mirrors |-> NoList,
     build |-> None, target |-> None, download |-> None, download_cache |-> None,
     source |-> None, upgrade |-> FALSE, force_reinstall |-> FALSE,
     ignore_installed |-> FALSE, exists_action |-> None, no_deps |-> FALSE,
     no_install |-> FALSE, no_download |-> FALSE, install_options |-> NoList,
     runas |-> None, no_chown |-> FALSE, cwd |-> None, activate |-> FALSE]

Egg == <<"git+https://x/y.git", "#", "egg=", "foo">>

\* the values that break a rule of install, and values that keep it
GoodEditables == { StrArg(Egg), StrArg(<<"/", "src/foo">>) }
BadEditables == { StrArg(<<"svn+http://x/z">>),
                  ListArg(<<Egg, <<"git+https://x/y.git", "#", "egg=">>>>) }
GoodTimeouts == { <<"3", "0">> }
BadTimeouts == { <<"a", "b", "c">> }
GoodMirrors == { StrArg(<<"http", "://", "m1">>) }
BadMirrors == { StrArg(<<"ftp", "://", "m1">>),
                StrArg(<<"http", "://", "m1", ",", " ", "https", "://", "m2">>) }
BadUrls == { <<"file", "://", "links">>, <<"index">>, <<"gopher", "://", "extra">> }

\* the values an argument is given
Given ==
    [pkgs |-> { ListArg(<<<<"django">>, <<"markdown">>>>),
                ListArg(<<<<"foo>=1", ";", "<2">>>>),
                StrArg(<<"django">>),
                StrArg(<<"django", ",", " ", "foo>=1", ";", "<2">>) },
     requirements |-> { <<"/", "srv/reqs.txt">>, <<"salt", "://", "reqs.txt">> },
     env |-> { <<"/oldenv">> },
     bin_env |-> { <<"/venv">> },
     log |-> { <<"/var/log/pip.log">> },
     proxy |-> { <<"proxy:3128">> },
     timeout |-> GoodTimeouts \cup BadTimeouts,
     editable |-> GoodEditables \cup BadEditables,
     find_links |-> { <<"http", "://", "links">>, <<"file", "://", "links">> },
     index_url |-> { <<"https", "://", "index">>, <<"index">> },
     extra_index_url |-> { <<"ftp", "://", "extra">>, <<"gopher", "://", "extra">> },
     no_index |-> { TRUE },
     mirrors |-> GoodMirrors \cup BadMirrors,
     build |-> { <<"/build">> },
     target |-> { <<"/target">> },
     download |-> { <<"/download">> },
     download_cache |-> { <<"/dlcache">> },
     source |-> { <<"/source">> },
     upgrade |-> { TRUE },
     force_reinstall |-> { TRUE },
     ignore_installed |-> { TRUE },
     exists_action |-> { <<"w">> },
     no_deps |-> { TRUE },
     no_install |-> { TRUE },
     no_download |-> { TRUE },
     install_options |-> { StrArg(<<"--prefix=/x">>),
                           ListArg(<<<<"--prefix=/x">>, <<"--quiet">>>>) },
     runas |-> { <<"deploy">> },
     no_chown |-> { TRUE },
     cwd |-> { <<"/srv">> },
     activate |-> { TRUE }]

\* the keyword arguments, in the order of the signature
Keywords ==
    << "pkgs", "requirements", "env", "bin_env", "log", "proxy", "timeout", "editable",
       "find_links", "index_url", "extra_index_url", "no_index", "mirrors", "build",
       "target", "download", "download_cache", "source", "upgrade", "force_reinstall",
       "ignore_installed", "exists_action", "no_deps", "no_install", "no_download",
       "install_options", "runas", "no_chown", "cwd", "activate" >>

\* the keywords a request gives: those that differ from the default
GivenIn(a) == {i \in 1..Len(Keywords) : a[Keywords[i]] # Defaults[Keywords[i]]}

(***************************************************************************)
(* The environments of a call: what the collaborators would answer.  An    *)
(* answer the call cannot ask for is left at its value in QuietEnv.        *)
(***************************************************************************)
QuietRun == [raises |-> FALSE, retcode |-> 0, stdout |-> <<>>, stderr |-> <<>>]

QuietEnv ==
    [windows |-> FALSE, onPath |-> {}, dirs |-> {}, files |-> {}, cached |-> 0,
     upstream |-> 0, copy_ok |-> TRUE, chown_ok |-> TRUE, run |-> QuietRun]

\* what _get_pip_bin and _get_env_activate can find for bin_env, the PATH holding
\* one of `paths` when it is searched
BinEnvs(bin_env, activate, paths) ==
    IF bin_env = None
    THEN {[QuietEnv EXCEPT !.onPath = p] : p \in paths}
    ELSE UNION { {[QuietEnv EXCEPT !.windows = w]}
                 \cup {[QuietEnv EXCEPT !.windows = w, !.dirs = {bin_env}, !.files = f] :
                        f \in SUBSET ( {IF w THEN bin_env \o <<"\\", "Scripts", "\\", "pip.exe">>
                                             ELSE bin_env \o <<"/", "bin", "/", "pip">>}
                                       \cup IF activate /\ ~w
                                            THEN {bin_env \o <<"/", "bin", "/", "activate">>}
                                            ELSE {} )}
                 : w \in BOOLEAN }

\* the file cache and the master, for a salt:// source
CacheEnvs(b, requirements) ==
    IF requirements # None /\ StartsWith(requirements, Salt)
    THEN {[b EXCEPT !.cached = c, !.upstream = u] : c \in 0..MaxHash, u \in 0..MaxHash}
    ELSE {b}

\* shutil.copyfile and file.chown, when a copy is made
CopyEnvs(b, copies) ==
    IF copies
    THEN {b, [b EXCEPT !.copy_ok = FALSE], [b EXCEPT !.chown_ok = FALSE]}
    ELSE {b}

\* cmd.run_all raises, or returns one of these exit codes
RunEnvs(b, retcodes, outputs) ==
    {[b EXCEPT !.run = [raises |-> TRUE, retcode |-> 0, stdout |-> <<>>, stderr |-> <<>>]]}
    \cup {[b EXCEPT !.run = [raises |-> FALSE, retcode |-> rc, stdout |-> out,
                             stderr |-> IF rc = 0 THEN <<>> ELSE <<"pip failed">>]] :
           rc \in retcodes, out \in outputs}

\* the environments of install(a): an answer is drawn when the call comes to ask for it
InstallEnvs(a) ==
    UNION { IF install(b1, a).exc = "CommandNotFoundError" THEN {b1}
            ELSE UNION { UNION { IF install(b3, a).ran = <<>> THEN {b3}
                                 ELSE RunEnvs(b3, {0, 1}, {<<"Successfully installed">>})
                                 : b3 \in CopyEnvs(b2, Copies(a)) }
                         : b2 \in CacheEnvs(b1, a.requirements) }
            : b1 \in BinEnvs(EffectiveBinEnv(a), a.activate, {{}, {"pip"}}) }

\* the uninstall requests (lines 411-419)
UninstallRequests ==
    [pkgs : {None, <<"django", ",", "markdown">>},
     requirements : {None, <<"/", "srv/reqs.txt">>, <<"salt", "://", "reqs.txt">>},
     bin_env : {None, <<"/venv">>},
     log : {None, <<"/var/log/pip.log">>},
     proxy : {None, <<"proxy:3128">>},
     timeout : {None, <<"3", "0">>, <<"a", "b", "c">>},
     runas : {None, <<"deploy">>},
     cwd : {None, <<"/srv">>}]

\* the master, for the salt:// source uninstall fetches
FetchEnvs(b, requirements) ==
    IF requirements # None /\ StartsWith(requirements, Salt)
    THEN {[b EXCEPT !.upstream = u] : u \in 0..MaxHash}
    ELSE {b}

UninstallEnvs(a) ==
    UNION { IF uninstall(b1, a).exc = "CommandNotFoundError" THEN {b1}
            ELSE UNION { UNION { IF uninstall(b3, a).ran = <<>> THEN {b3}
                                 ELSE RunEnvs(b3, {0, 1}, {<<"Successfully uninstalled">>})
                                 : b3 \in {b2, [b2 EXCEPT !.copy_ok = FALSE]} }
                         : b2 \in FetchEnvs(b1, a.requirements) }
            : b1 \in BinEnvs(a.bin_env, FALSE, {{}, {"pip"}}) }

\* the lines pip freeze prints: 'name==version', '-e origin#egg=name', and lines
\* that are neither
FreezeNames == {<<"A", "b">>, <<"b">>}
FreezeVersions == {<<"1", ".", "5">>}
FreezeOrigins == {<<"git+https://x/r">>, <<"git+https://x/r", "-", "e", "2">>}
PlainLines == {n \o <<"=", "=">> \o v : n \in FreezeNames, v \in FreezeVersions}
EditableLines == {<<"-", "e", " ">> \o o \o <<"#", "egg=">> \o n : o \in FreezeOrigins, n \in FreezeNames}
OtherLines == {<<"#", "#", " ", "FIXME">>, <<"-", "f", " ", "/links">>}
FreezeLines == PlainLines \cup EditableLines \cup OtherLines

RECURSIVE LinesUpTo(_)
\* the sequences of at most k lines
LinesUpTo(k) ==
    IF k = 0 THEN {<<>>}
    ELSE LET prev == LinesUpTo(k - 1)
         IN  prev \cup {Append(ls, l) : ls \in prev, l \in FreezeLines}

RECURSIVE Text(_)
\* the output that consists of these lines
Text(lines) == IF lines = <<>> THEN <<>> ELSE Head(lines) \o <<"\n">> \o Text(Tail(lines))

FreezeOutputs == {Text(ls) : ls \in LinesUpTo(MaxLines)}

\* the exit codes of pip freeze: killed by a signal, success, failure
RetCodes == {-9, 0, 1}

FreezeRequests == [bin_env : {None, <<"/venv">>}, runas : {None, <<"deploy">>}, cwd : {None}]

ListRequests ==
    [prefix : {None, <<"a">>, <<"B">>}, bin_env : {None, <<"/venv">>}, runas : {None}, cwd : {None}]

FreezeEnvs(a) ==
    UNION { IF freeze(b1, a).exc = "CommandNotFoundError" THEN {b1}
            ELSE RunEnvs(b1, RetCodes, FreezeOutputs)
            : b1 \in BinEnvs(a.bin_env, FALSE, {{}, {"pip"}}) }

\* the platforms, PATHs and file systems _get_pip_bin is called in
ResolveEnvs(bin_env) ==
    {[QuietEnv EXCEPT !.windows = w, !.onPath = p, !.dirs = d, !.files = f] :
       w \in BOOLEAN, p \in SUBSET {"pip2", "pip", "pip-python"},
       d \in SUBSET {<<"/venv">>},
       f \in SUBSET {<<"/venv", "/", "bin", "/", "pip">>,
                     <<"/venv", "\\", "Scripts", "\\", "pip.exe">>}}

\* what _get_env_activate can find for bin_env
ActivateEnvs(bin_env) ==
    IF bin_env = None THEN {QuietEnv}
    ELSE UNION { {[QuietEnv EXCEPT !.windows = w]}
                 \cup {[QuietEnv EXCEPT !.windows = w, !.dirs = {bin_env}, !.files = f] :
                        f \in SUBSET {IF w THEN bin_env \o <<"\\", "Scripts", "\\", "activate.bat">>
                                           ELSE bin_env \o <<"/", "bin", "/", "activate">>}}
                 : w \in BOOLEAN }

(***************************************************************************)
(* The calls.  One function of the module is called, with its arguments    *)
(* and in its environment, and what it did is recorded.                    *)
(***************************************************************************)
Init ==
    /\ pc = "idle"
    /\ op = "none"
    /\ args = Defaults
    /\ env = QuietEnv
    /\ outcome = [kind |-> "none", exc |-> "", val |-> NoVal]
    /\ ran = <<>>
    /\ fetched = <<>>
    /\ created = {}
    /\ tmp = {}
    /\ cachehash = 0

Record(name, a, e, d) ==
    /\ pc' = "done"
    /\ op' = name
    /\ args' = a
    /\ env' = e
    /\ outcome' = [kind |-> IF d.exc = "" THEN "return" ELSE "raise", exc |-> d.exc, val |-> d.val]
    /\ ran' = d.ran
    /\ fetched' = d.fetched
    /\ created' = d.created
    /\ tmp' = d.tmp
    /\ cachehash' = d.cache

\* the caller gives install one more keyword argument (in the order of the
\* signature, at most MaxOpts of them)
Give ==
    /\ pc = "idle"
    /\ Cardinality(GivenIn(args)) < MaxOpts
    /\ \E i \in 1..Len(Keywords) :
          /\ \A j \in GivenIn(args) : j < i
          /\ \E v \in Given[Keywords[i]] : args' = [args EXCEPT ![Keywords[i]] = v]
    /\ UNCHANGED <<pc, op, env, outcome, ran, fetched, created, tmp, cachehash>>

\* install is called with the arguments given
Install ==
    /\ pc = "idle"
    /\ \E e \in InstallEnvs(args) : Record("install", args, e, install(e, args))

\* uninstall is called
Uninstall ==
    /\ pc = "idle"
    /\ args = Defaults
    /\ \E a \in UninstallRequests : \E e \in UninstallEnvs(a) :
          Record("uninstall", a, e, uninstall(e, a))

\* freeze is called
Freeze ==
    /\ pc = "idle"
    /\ args = Defaults
    /\ \E a \in FreezeRequests : \E e \in FreezeEnvs(a) : Record("freeze", a, e, freeze(e, a))

\* list_ is called
List ==
    /\ pc = "idle"
    /\ args = Defaults
    /\ \E a \in ListRequests : \E e \in FreezeEnvs(a) : Record("list", a, e, list_(e, a))

Called(r, e) == Did(r.exc, [type |-> "path", path |-> r.val], <<>>, <<>>, {}, {}, e.cached)

\* _get_pip_bin is called
GetPipBin ==
    /\ pc = "idle"
    /\ args = Defaults
    /\ \E b \in {None, <<"/venv">>} : \E e \in ResolveEnvs(b) :
          Record("_get_pip_bin", [bin_env |-> b], e, Called(_get_pip_bin(e, b), e))

\* _get_env_activate is called
GetEnvActivate ==
    /\ pc = "idle"
    /\ args = Defaults
    /\ \E b \in {None, <<"/venv">>} : \E e \in ActivateEnvs(b) :
          Record("_get_env_activate", [bin_env |-> b], e, Called(_get_env_activate(e, b), e))

\* _get_cached_requirements is called
GetCachedRequirements ==
    /\ pc = "idle"
    /\ args = Defaults
    /\ \E r \in {<<"salt", "://", "reqs.txt">>, <<"salt", "://", "dev.txt">>} :
          \E e \in CacheEnvs(QuietEnv, r) :
             LET c == _get_cached_requirements(e, r)
             IN  Record("_get_cached_requirements", [requirements |-> r], e,
                        Did("", [type |-> "path", path |-> c.val], <<>>, c.fetched, {}, {}, c.cache))

Next ==
    \/ Give
    \/ Install
    \/ Uninstall
    \/ Freeze
    \/ List
    \/ GetPipBin
    \/ GetEnvActivate
    \/ GetCachedRequirements

Spec == Init /\ [][Next]_vars

(***************************************************************************)
(* The claims.                                                             *)
(***************************************************************************)
Returned(name) == pc = "done" /\ op = name /\ outcome.kind = "return"
Raised(name) == pc = "done" /\ op = name /\ outcome.kind = "raise"
Ended(name) == pc = "done" /\ op = name

\* C1: when install is called with a requirements source, runas set and no_chown
\* false, the temporary copy the call made no longer exists when the call ends,
\* whatever the outcome: a return, a failure of file.chown, a validation error
\* raised after the copy, a failure of cmd.run_all.
C1_InstallCopyRemoved ==
    (Ended("install") /\ args.requirements # None /\ args.runas # None /\ ~args.no_chown
        /\ env.copy_ok)
        => created \cap tmp = {}

\* the request breaks a validation rule of install
BreaksRule(a) ==
    \/ a.editable \in BadEditables
    \/ a.timeout \in BadTimeouts
    \/ a.find_links \in BadUrls
    \/ a.index_url \in BadUrls
    \/ a.extra_index_url \in BadUrls
    \/ (a.no_index /\ (a.index_url # None \/ a.extra_index_url # None))
    \/ a.mirrors \in BadMirrors

\* C2, as stated: an install request that breaks a validation rule raises an error
\* and cmd.run_all is never invoked.
C2_RuleBreakRaises ==
    (Ended("install") /\ BreaksRule(args)) => (outcome.kind = "raise" /\ ran = <<>>)

\* C2, amended: an install request that breaks a validation rule never invokes
\* cmd.run_all and returns no command result; it raises an error, unless no editable
\* entry is invalid and its salt:// requirements source has no cached copy, and then
\* it returns the not-found value.
C2_RuleBreakNeverRuns ==
    (Ended("install") /\ BreaksRule(args))
        => /\ ran = <<>>
           /\ \/ outcome.kind = "raise"
              \/ /\ outcome.val.type = "notfound"
                 /\ args.editable \notin BadEditables
                 /\ StartsWith(args.requirements, Salt)

C2_Witness ==
    /\ Raised("install")
    /\ args.mirrors \in BadMirrors
    /\ outcome.exc = "Exception"
    /\ ran = <<>>

\* the pip binary resolves for the request
PipResolves(e, a) ==
    LET b == IF a.env # None /\ a.bin_env = None THEN a.env ELSE a.bin_env
    IN  IF b = None THEN e.onPath # {}
        ELSE b \in e.dirs =>
                (IF e.windows THEN b \o <<"\\", "Scripts", "\\", "pip.exe">>
                              ELSE b \o <<"/", "bin", "/", "pip">>) \in e.files

\* the request asks for activation, on a platform that has it
AsksActivation(e, a) ==
    a.activate /\ (a.bin_env # None \/ a.env # None) /\ ~e.windows

\* the activation script of the request exists
ActivationResolves(e, a) ==
    LET b == IF a.env # None /\ a.bin_env = None THEN a.env ELSE a.bin_env
    IN  b \in e.dirs /\ (b \o <<"/", "bin", "/", "activate">>) \in e.files

\* a salt:// requirements source for which the file cache yields nothing
NothingCached(e, a) ==
    /\ a.requirements # None
    /\ StartsWith(a.requirements, Salt)
    /\ e.cached = 0
    /\ e.upstream = 0

\* what C3 says install does
ReturnsNotFound ==
    /\ outcome.kind = "return"
    /\ outcome.val.type = "notfound"
    /\ outcome.val.result = FALSE
    /\ ran = <<>>
    /\ created = {}

\* C3, as stated: with a salt:// requirements source of which the cache yields no
\* copy, the pip binary resolving and pkgs and editable valid, install returns
\* {result: False, comment: ...}, never invokes cmd.run_all and creates no temporary
\* file.
C3_NotFoundReturned ==
    (Ended("install") /\ NothingCached(env, args) /\ PipResolves(env, args)
        /\ args.editable \notin BadEditables)
        => ReturnsNotFound

\* C3, amended: the same, provided the activation script resolves when activation
\* is asked for.
C3_NotFoundUnlessActivationFails ==
    (Ended("install") /\ NothingCached(env, args) /\ PipResolves(env, args)
        /\ args.editable \notin BadEditables
        /\ (AsksActivation(env, args) => ActivationResolves(env, args)))
        => ReturnsNotFound

C3_Witness ==
    /\ Returned("install")
    /\ NothingCached(env, args)
    /\ outcome.val.type = "notfound"
    /\ fetched # <<>>

\* C4: whenever the freeze invocation returns an exit code other than 0, freeze and
\* list raise CommandExecutionError carrying the captured stderr.
C4_NonZeroExitRaises ==
    (pc = "done" /\ op \in {"freeze", "list"} /\ ran # <<>>
        /\ ~env.run.raises /\ env.run.retcode # 0)
        => /\ outcome.kind = "raise"
           /\ outcome.exc = "CommandExecutionError"
           /\ outcome.val = [type |-> "stderr", stderr |-> env.run.stderr]

\* C5: when the cached copy of a salt:// source has a hash that differs from the
\* hash of the master's file, _get_cached_requirements calls cp.cache_file exactly
\* once and returns what that call returned; when the master has the file, the path
\* returned holds the master's content.
C5_StaleCopyRefetchedOnce ==
    (Ended("_get_cached_requirements") /\ env.cached # 0 /\ env.cached # env.upstream)
        => /\ Len(fetched) = 1
           /\ outcome.val.path = fetched[1]
           /\ env.upstream # 0 => (outcome.val.path # None /\ cachehash = env.upstream)

C5_Witness ==
    /\ Returned("_get_cached_requirements")
    /\ env.cached = 1
    /\ env.upstream = 2
    /\ Len(fetched) = 1
    /\ cachehash = 2

\* C6: every temporary copy uninstall made of a salt:// requirements source is
\* removed by the time uninstall returns or raises: after a run, after a validation
\* error raised after the copy, after a failure of cmd.run_all.
C6_UninstallCopyRemoved ==
    (Ended("uninstall") /\ fetched # <<>> /\ fetched[1] # None /\ env.copy_ok)
        => created \cap tmp = {}

\* the lines of a freeze output (not by way of splitlines)
LinesOf(stdout) == CHOOSE ls \in LinesUpTo(MaxLines) : Text(ls) = stdout

\* the name and the value of a well-formed line (not by way of split)
EntryOf(line) ==
    CHOOSE en \in [name : FreezeNames, value : FreezeVersions \cup FreezeOrigins] :
        \/ line = en.name \o <<"=", "=">> \o en.value
        \/ line = <<"-", "e", " ">> \o en.value \o <<"#", "egg=">> \o en.name

\* the name passes the prefix filter of list
Passes(name, prefix) ==
    LET low(c) == IF c = "A" THEN "a" ELSE IF c = "B" THEN "b" ELSE c
    IN  /\ Len(prefix) <= Len(name)
        /\ \A i \in 1..Len(prefix) : low(name[i]) = low(prefix[i])

\* the mapping C7 describes, a later line replacing an earlier line of the same name
ExpectedPackages(ls, prefix) ==
    LET kept == {i \in 1..Len(ls) : Passes(EntryOf(ls[i]).name, prefix)}
        names == {EntryOf(ls[i]).name : i \in kept}
        last(n) == CHOOSE i \in kept : /\ EntryOf(ls[i]).name = n
                                       /\ \A j \in kept : EntryOf(ls[j]).name = n => j <= i
    IN  [n \in names |-> EntryOf(ls[last(n)]).value]

WellFormed(ls) == \A i \in 1..Len(ls) : ls[i] \in PlainLines \cup EditableLines

\* C7: for a freeze output of editable lines and name==version lines, list returns
\* exactly the mapping that sends each editable line's name to its origin and each
\* plain line's name to its version, restricted to the names that start with the
\* prefix, letter case ignored (to all names when the prefix is empty).
C7_ListMapsWellFormedLines ==
    (Ended("list") /\ ran # <<>> /\ ~env.run.raises /\ env.run.retcode = 0
        /\ WellFormed(LinesOf(env.run.stdout)))
        => /\ outcome.kind = "return"
           /\ outcome.val.type = "packages"
           /\ outcome.val.packages = ExpectedPackages(LinesOf(env.run.stdout), args.prefix)

C7_Witness ==
    /\ Returned("list")
    /\ args.prefix = <<"a">>
    /\ LinesOf(env.run.stdout) =
          << <<"-", "e", " ", "git+https://x/r", "-", "e", "2", "#", "egg=", "A", "b">>,
             <<"b", "=", "=", "1", ".", "5">> >>
    /\ DOMAIN outcome.val.packages = {<<"A", "b">>}
    /\ outcome.val.packages[<<"A", "b">>] = <<"git+https://x/r", "-", "e", "2">>

\* the tokens C8 expects for the packages of a request
ExpectedPkgTokens(pkgs) ==
    CASE pkgs = ListArg(<<<<"django">>, <<"markdown">>>>) -> <<<<"django">>, <<"markdown">>>>
      [] pkgs = ListArg(<<<<"foo>=1", ";", "<2">>>>) -> <<<<"foo>=1", ",", "<2">>>>
      [] pkgs = StrArg(<<"django">>) -> <<<<"django">>>>
      [] pkgs = StrArg(<<"django", ",", " ", "foo>=1", ";", "<2">>)
            -> <<<<"django">>, <<"foo>=1", ",", "<2">>>>

\* the request gives pkgs and upgrade=True and nothing else
OnlyPkgsAndUpgrade(a) ==
    /\ a.pkgs # NoList
    /\ a.upgrade
    /\ a = [Defaults EXCEPT !.pkgs = a.pkgs, !.upgrade = TRUE]

RECURSIVE Spaced(_)
\* the tokens, one blank between two of them
Spaced(toks) ==
    IF Len(toks) = 1 THEN toks[1] ELSE toks[1] \o <<" ">> \o Spaced(Tail(toks))

\* C8: for an install request with a package list and upgrade=True and no other
\* option, the command handed to cmd.run_all is the pip binary, 'install', the
\* packages in their order with every ';' restored to ',', then '--upgrade', and
\* nothing else.
C8_PkgsUpgradeCommand ==
    (Ended("install") /\ OnlyPkgsAndUpgrade(args) /\ env.onPath = {"pip"})
        => ran = << Spaced(<< <<"/usr/bin/", "pip">>, <<"install">> >>
                           \o ExpectedPkgTokens(args.pkgs) \o << <<"--upgrade">> >>) >>

C8_Witness ==
    /\ Returned("install")
    /\ args.pkgs = StrArg(<<"django", ",", " ", "foo>=1", ";", "<2">>)
    /\ args.upgrade
    /\ ran = << <<"/usr/bin/", "pip", " ", "install", " ", "django", " ",
                  "foo>=1", ",", "<2", " ", "--upgrade">> >>

\* C9: _get_pip_bin resolves in three cases.  With bin_env empty it returns the first
\* of pip2, pip, pip-python found on the PATH and raises CommandNotFoundError when
\* none is found.  With bin_env a directory it returns Scripts/pip.exe (Windows) or
\* bin/pip under it when that file exists, and raises CommandNotFoundError when it
\* does not, whatever the PATH holds.  With any other bin_env it returns bin_env.
C9_PipBinThreeCases ==
    Ended("_get_pip_bin") =>
        IF args.bin_env = None
        THEN IF env.onPath = {}
             THEN outcome.kind = "raise" /\ outcome.exc = "CommandNotFoundError"
             ELSE /\ outcome.kind = "return"
                  /\ outcome.val.path =
                        <<"/usr/bin/",
                          IF "pip2" \in env.onPath THEN "pip2"
                          ELSE IF "pip" \in env.onPath THEN "pip" ELSE "pip-python">>
        ELSE IF args.bin_env \in env.dirs
        THEN LET sub == IF env.windows THEN args.bin_env \o <<"\\", "Scripts", "\\", "pip.exe">>
                                       ELSE args.bin_env \o <<"/", "bin", "/", "pip">>
             IN  IF sub \in env.files
                 THEN outcome.kind = "return" /\ outcome.val.path = sub
                 ELSE outcome.kind = "raise" /\ outcome.exc = "CommandNotFoundError"
        ELSE outcome.kind = "return" /\ outcome.val.path = args.bin_env

C9_Witness ==
    /\ Raised("_get_pip_bin")
    /\ args.bin_env = <<"/venv">>
    /\ <<"/venv">> \in env.dirs
    /\ env.onPath = {"pip"}
    /\ ~env.windows
    /\ env.files = {<<"/venv", "\\", "Scripts", "\\", "pip.exe">>}

\* C10: every install request for which cmd.run_all is invoked has a non-empty
\* package list or a requirements source.
C10_RunNeedsPkgsOrRequirements ==
    (Ended("install") /\ ran # <<>>)
        => (args.pkgs # NoList \/ args.requirements # None)

\* the command begins with these tokens
BeginsWith(cmd, toks) ==
    \/ cmd = Spaced(toks)
    \/ StartsWith(cmd, Spaced(toks) \o <<" ">>)

\* activate is set and a bin_env, or the env fallback, is given
ActivationAsked(a) == a.activate /\ (a.bin_env # None \/ a.env # None)

\* the root the request names: bin_env, or env when no bin_env is given
GivenRoot(a) == IF a.bin_env # None THEN a.bin_env ELSE a.env

\* the pip binary of the call
PipOf(e, a) == _get_pip_bin(e, GivenRoot(a)).val

\* C11: in install, with activate set and a bin_env (or the env fallback) given, on a
\* platform other than Windows the command begins with '.', the activate script
\* under bin_env/bin and '&&', then the pip binary and 'install', and install raises
\* CommandNotFoundError when bin_env is not a directory or the activate script is
\* absent; on Windows nothing is prepended and the activation resolver is not
\* consulted (a missing script or directory raises nothing).  With activate unset
\* or no bin_env, the command begins with the pip binary.
C11_ActivationPrefix ==
    Ended("install") =>
        LET root == GivenRoot(args)
            script == root \o <<"/", "bin", "/", "activate">>
            asked == ActivationAsked(args)
        IN  /\ (asked /\ ~env.windows /\ ran # <<>>)
                  => BeginsWith(ran[1], << <<".">>, script, <<"&&">>, PipOf(env, args),
                                          <<"install">> >>)
            /\ (asked /\ ~env.windows /\ (root \notin env.dirs \/ script \notin env.files))
                  => (outcome.kind = "raise" /\ outcome.exc = "CommandNotFoundError"
                        /\ ran = <<>>)
            /\ (asked /\ env.windows /\ ran # <<>>)
                  => BeginsWith(ran[1], << PipOf(env, args), <<"install">> >>)
            /\ (asked /\ env.windows /\ PipResolves(env, args))
                  => outcome.exc # "CommandNotFoundError"
            /\ (~asked /\ ran # <<>>)
                  => BeginsWith(ran[1], << PipOf(env, args), <<"install">> >>)

\* activation prefixed on a platform other than Windows, by way of the env fallback
C11_Witness ==
    /\ Returned("install")
    /\ args.activate
    /\ args.env = <<"/oldenv">>
    /\ args.bin_env = None
    /\ ~env.windows
    /\ ran = << <<".", " ", "/oldenv", "/", "bin", "/", "activate", " ", "&&", " ",
                  "/oldenv", "/", "bin", "/", "pip", " ", "install">> >>

\* activation asked for on Windows, bin_env not a directory: the command is run
C11_WitnessWindows ==
    /\ Returned("install")
    /\ args.activate
    /\ args.bin_env = <<"/venv">>
    /\ env.windows
    /\ env.dirs = {}
    /\ ran = << <<"/venv", " ", "install">> >>

\* activation asked for, the script absent
C11_WitnessRaises ==
    /\ Raised("install")
    /\ args.activate
    /\ args.bin_env = <<"/venv">>
    /\ ~env.windows
    /\ env.files = {<<"/venv", "/", "bin", "/", "pip">>}
    /\ outcome.exc = "CommandNotFoundError"

\* the editable lines and the name==version lines among ls
WellFormedOf(ls) == SelectSeq(ls, LAMBDA l : l \in PlainLines \cup EditableLines)

\* a line of the output is neither an editable line nor a name==version line
HasOtherLine(ls) == \E i \in 1..Len(ls) : ls[i] \in OtherLines

\* the failures of a name that is not bound and of an unpacking
NameOrUnpackingFailures == {"UnboundLocalError", "NameError", "ValueError", "IndexError"}

\* C12: in list, a freeze line that is neither an editable line nor a name==version
\* line, wherever it stands in the output, adds no entry of its own, leaves the
\* entries of the other lines as they are, and causes no name or unpacking failure:
\* list returns the mapping of the other lines.
C12_OtherLinesSkipped ==
    (Ended("list") /\ ran # <<>> /\ ~env.run.raises /\ env.run.retcode = 0
        /\ HasOtherLine(LinesOf(env.run.stdout)))
        => /\ outcome.exc \notin NameOrUnpackingFailures
           /\ outcome.kind = "return"
           /\ outcome.val.type = "packages"
           /\ outcome.val.packages
                 = ExpectedPackages(WellFormedOf(LinesOf(env.run.stdout)), args.prefix)

\* the same, for the outputs whose first line is an editable line or a name==version
\* line
C12_OtherLinesSkippedAfterFirst ==
    (Ended("list") /\ ran # <<>> /\ ~env.run.raises /\ env.run.retcode = 0
        /\ HasOtherLine(LinesOf(env.run.stdout))
        /\ LinesOf(env.run.stdout)[1] \notin OtherLines)
        => /\ outcome.kind = "return"
           /\ outcome.val.type = "packages"
           /\ outcome.val.packages
                 = ExpectedPackages(WellFormedOf(LinesOf(env.run.stdout)), args.prefix)

\* a line of the third kind after a line that the prefix filters out
C12_AfterFirstReached ==
    /\ Returned("list")
    /\ args.prefix = <<"a">>
    /\ LinesOf(env.run.stdout) = << <<"b", "=", "=", "1", ".", "5">>, <<"#", "#", " ", "FIXME">> >>
    /\ DOMAIN outcome.val.packages = {}

\* a line of the third kind comes first
C12_FirstReached ==
    /\ Raised("list")
    /\ LinesOf(env.run.stdout) = << <<"#", "#", " ", "FIXME">>, <<"b", "=", "=", "1", ".", "5">> >>
    /\ outcome.exc = "UnboundLocalError"


====
